---- MODULE Spec2Model ----
(***************************************************************************)
(* Model of lehmerand (src/lib.rs): a Lehmer generator on a 128-bit state, *)
(* its width extractors, the thread-local seed source and Clone.           *)
(*                                                                         *)
(* An unsigned integer of width 8*n bits is the sequence of its n base-256 *)
(* digits, most significant first, as the hexadecimal literal is written   *)
(* (TLC's own integers stop at 2^31).  A signed integer is the pair of its *)
(* sign and the digits of its magnitude.                                   *)
(***************************************************************************)
EXTENDS Integers, Sequences, FiniteSets

VARIABLES RNG, cells, born, log

vars == <<RNG, cells, born, log>>

---------------------------------------------------------------------------
(* Bounds of the model *)

\* Spec: constructions and calls in one run (clone is one of each)
MaxOps == 3
\* SpecTwins: calls made on the two generators together
MaxTwinDraws == 2
\* SpecClone: generators in one run, the two seeded ones included
MaxCloneRngs == 4
\* SpecClone: calls (u64 and clone) in one run
MaxCloneDraws == 6
\* SpecNew: generators default-constructed in one run
MaxNewRngs == 3
\* SpecNew: calls (u64) in one run
MaxNewDraws == 5

---------------------------------------------------------------------------
(* Fixed-width arithmetic on digit sequences *)

RECURSIVE bit_and(_, _, _)
bit_and(a, b, n) ==
    IF n = 0 THEN 0
    ELSE (a % 2) * (b % 2) + 2 * bit_and(a \div 2, b \div 2, n - 1)

RECURSIVE bit_or(_, _, _)
bit_or(a, b, n) ==
    IF n = 0 THEN 0
    ELSE (IF (a % 2) + (b % 2) > 0 THEN 1 ELSE 0) + 2 * bit_or(a \div 2, b \div 2, n - 1)

RECURSIVE bit_xor(_, _, _)
bit_xor(a, b, n) ==
    IF n = 0 THEN 0
    ELSE ((a + b) % 2) + 2 * bit_xor(a \div 2, b \div 2, n - 1)

\* 0 at the width of n digits
zeros(n) == [i \in 1..n |-> 0]

\* the digits in the opposite order
reverse(x) == [i \in 1..Len(x) |-> x[Len(x) + 1 - i]]

\* x & y, x | y, x ^ y on operands of one width
and(x, y) == [i \in 1..Len(x) |-> bit_and(x[i], y[i], 8)]
or(x, y) == [i \in 1..Len(x) |-> bit_or(x[i], y[i], 8)]
xor(x, y) == [i \in 1..Len(x) |-> bit_xor(x[i], y[i], 8)]

\* the literal 1 at the width of x
one(x) == [i \in 1..Len(x) |-> IF i = Len(x) THEN 1 ELSE 0]

\* x << 1 at the width of x: the top bit is shifted out
shl1(x) ==
    [i \in 1..Len(x) |->
        ((2 * x[i]) % 256) + (IF i < Len(x) THEN x[i + 1] \div 128 ELSE 0)]

\* x >> (8 * k) at the width of x
shr(x, k) == [i \in 1..Len(x) |-> IF i <= k THEN 0 ELSE x[i - k]]

\* `x as uN`, N = 8 * n no wider than x: the low n digits
truncate(x, n) == SubSeq(x, Len(x) - n + 1, Len(x))

\* u64 -> u128 `.into()`: zero extension
into_u128(x) == zeros(16 - Len(x)) \o x

\* the digits of a sequence of column sums, carries propagated from the
\* least significant column (the last) and the final carry dropped
carried(cols, carry_in) ==
    LET n == Len(cols)
        \* the digits k and up, least significant first
        RECURSIVE from(_, _)
        from(k, carry) ==
            IF k = n THEN <<>>
            ELSE LET s == cols[n - k] + carry
                 IN  <<(s % 256)>> \o from(k + 1, s \div 256)
    IN  reverse(from(0, carry_in))

\* u128::wrapping_mul: the product modulo 2^(8 * Len(x)), by long
\* multiplication; column k (k = 0 the least significant) sums the
\* products of the digits i of x and k - i of y
wrapping_mul(x, y) ==
    LET n == Len(x)
        RECURSIVE col_sum(_, _)
        col_sum(k, i) ==
            IF i > k THEN 0 ELSE x[n - i] * y[n - k + i] + col_sum(k, i + 1)
    IN  carried(SubSeq([j \in 1..n |-> col_sum(n - j, 0)], 1, n), 0)

\* x * m + a on the digits of x, for small m and a
muladd(x, m, a) == carried(SubSeq([j \in 1..Len(x) |-> x[j] * m], 1, Len(x)), a)

\* 2^(8 * Len(x)) - x modulo 2^(8 * Len(x)): the two's complement of x,
\* all bits inverted and 1 added
negate(x) == muladd([i \in 1..Len(x) |-> 255 - x[i]], 1, 1)

is_odd(x) == x[Len(x)] % 2 = 1

---------------------------------------------------------------------------
(* Constants of the program *)

MULT ==
    <<18, 225, 94, 53, 181, 0, 241, 110, 46, 113, 78, 178, 179, 121, 22, 165>>

MASK_LOW == <<0, 0, 0, 0, 255, 255, 255, 255>>

MASK_HIGH == <<255, 255, 255, 255, 0, 0, 0, 0>>

---------------------------------------------------------------------------
(* Methods of Rng: each maps the cell's value to the cell's new value *)
(* (state) and the value returned (ret)                               *)

\* the initial value of the thread-local seed source, from the hash
seed_source(hash) == into_u128(or(shl1(hash), one(hash)))

\* with_seed without the `| 1`
with_seed_shift_only(seed) == shl1(seed)

\* with_seed as `seed | 1`, without the shift
with_seed_or_only(seed) == or(seed, one(seed))

with_seed(seed) == or(shl1(seed), one(seed))

next_state(cell) ==
    LET state == wrapping_mul(cell, MULT)
    IN  [state |-> state, ret |-> state]

\* gen_u64 as `self.next_state() as u64`: the low half of the state
gen_u64_low(cell) ==
    LET r == next_state(cell)
    IN  [state |-> r.state, ret |-> truncate(r.ret, 8)]

gen_u64(cell) ==
    LET r == next_state(cell)
    IN  [state |-> r.state, ret |-> truncate(shr(r.ret, 8), 8)]

u64(cell) == gen_u64(cell)

\* u32 as `gen as u32`: truncation, the high half not folded in
u32_truncating(cell) ==
    LET r == gen_u64(cell)
    IN  [state |-> r.state, ret |-> truncate(r.ret, 4)]

u32(cell) ==
    LET r == gen_u64(cell)
        low == truncate(and(r.ret, MASK_LOW), 4)
        high == truncate(shr(and(r.ret, MASK_HIGH), 4), 4)
    IN  [state |-> r.state, ret |-> xor(high, low)]

u16(cell) ==
    LET r == u32(cell)
    IN  [state |-> r.state, ret |-> truncate(shr(r.ret, 2), 2)]

\* u8 drawing a second u32 for its result
u8_second_draw(cell) ==
    LET r == u32(u32(cell).state)
    IN  [state |-> r.state, ret |-> truncate(shr(r.ret, 3), 1)]

u8(cell) ==
    LET r == u32(cell)
    IN  [state |-> r.state, ret |-> truncate(shr(r.ret, 3), 1)]

\* uN::to_le_bytes: the digits, least significant first
to_le_bytes(x) == reverse(x)

\* iN::from_be_bytes in place of from_le_bytes
from_be_bytes(bytes) ==
    LET x == bytes
    IN  IF x[1] >= 128 THEN [neg |-> TRUE, mag |-> negate(x)]
        ELSE [neg |-> FALSE, mag |-> x]

\* iN::from_le_bytes: the two's complement value of the bytes
from_le_bytes(bytes) ==
    LET x == reverse(bytes)
    IN  IF x[1] >= 128 THEN [neg |-> TRUE, mag |-> negate(x)]
        ELSE [neg |-> FALSE, mag |-> x]

i64(cell) ==
    LET r == gen_u64(cell)
    IN  [state |-> r.state, ret |-> from_le_bytes(to_le_bytes(r.ret))]

i32(cell) ==
    LET r == u32(cell)
    IN  [state |-> r.state, ret |-> from_le_bytes(to_le_bytes(r.ret))]

i16(cell) ==
    LET r == u16(cell)
    IN  [state |-> r.state, ret |-> from_le_bytes(to_le_bytes(r.ret))]

i8(cell) ==
    LET r == u8(cell)
    IN  [state |-> r.state, ret |-> from_le_bytes(to_le_bytes(r.ret))]

\* #[derive(Clone)]: the cell copied, the source left alone
clone_derived(cell) == [state |-> cell, ret |-> cell]

\* clone masking the advanced value again as with_seed does
clone_remasked(cell) ==
    LET r == next_state(cell)
    IN  [state |-> r.state, ret |-> with_seed(r.ret)]

\* Clone::clone: the source's new value and the clone's initial value
clone(cell) ==
    LET r == next_state(cell)
    IN  [state |-> r.state, ret |-> r.ret]

\* new reading the seed source without advancing it
new_without_advance(source) == [state |-> source, ret |-> source]

\* new masking the drawn value as with_seed does
new_masked(source) ==
    LET r == next_state(source)
    IN  [state |-> r.state, ret |-> with_seed(r.ret)]

\* Rng::new: the seed source's new value and the new generator's value
new(source) ==
    LET r == next_state(source)
    IN  [state |-> r.state, ret |-> r.ret]

---------------------------------------------------------------------------
(* Inputs *)

\* explicit seeds: 0, 1 and 2^127
Seeds ==
    { zeros(16),
      zeros(15) \o <<1>>,
      <<128>> \o zeros(15) }

\* values of hasher.finish() for the seed source: 0, 5321306764602406601
\* and 2^64 - 1
Hashes ==
    { zeros(8),
      <<73, 217, 20, 79, 21, 2, 118, 201>>,
      <<255, 255, 255, 255, 255, 255, 255, 255>> }

---------------------------------------------------------------------------
(* State *)

\* RNG    the thread-local seed source's cell; <<>> until its first use
\* cells  the cell of every Rng constructed so far, in construction order
\* born   how each Rng was constructed: by "with_seed" (seed), by "new"
\*        (at: how many Rngs new() had made before), or by "clone" (of: the
\*        source, at: the calls made on the source before); init: its
\*        first value
\* log    the calls made on each Rng in order: op, the cell before (pre)
\*        and after (post), the value returned (ret)

Uninit == <<>>

Rngs == 1..Len(cells)

RECURSIVE calls_upto(_)
calls_upto(n) == IF n = 0 THEN 0 ELSE Len(log[n]) + calls_upto(n - 1)

\* the calls made so far on all generators
calls == calls_upto(Len(log))

news == Cardinality({g \in Rngs : born[g].how = "new"})

\* the limits of a run: generators, calls, and both together
Limits(rngs, draws, ops) == [rngs |-> rngs, draws |-> draws, ops |-> ops]

CanConstruct(L) == Len(cells) < L.rngs /\ Len(cells) + calls < L.ops

CanDraw(L) == calls < L.draws /\ Len(cells) + calls < L.ops

Born(how, seed, of, at, value) ==
    [how |-> how, seed |-> seed, of |-> of, at |-> at, init |-> value]

Called(op, cell, r) ==
    [op |-> op, pre |-> cell, post |-> r.state, ret |-> r.ret]

\* no generator, the seed source not yet used
Init ==
    /\ RNG = Uninit
    /\ cells = <<>>
    /\ born = <<>>
    /\ log = <<>>

\* two generators from Rng::with_seed(seed) with one seed
InitTwins ==
    /\ RNG = Uninit
    /\ \E seed \in Seeds :
         /\ cells = <<with_seed(seed), with_seed(seed)>>
         /\ born = <<Born("with_seed", seed, 0, 0, with_seed(seed)),
                     Born("with_seed", seed, 0, 0, with_seed(seed))>>
    /\ log = <<<<>>, <<>>>>

\* Rng::with_seed(seed)
WithSeed(L) ==
    /\ CanConstruct(L)
    /\ \E seed \in Seeds :
         LET value == with_seed(seed)
         IN  /\ cells' = Append(cells, value)
             /\ born' = Append(born, Born("with_seed", seed, 0, 0, value))
             /\ log' = Append(log, <<>>)
    /\ UNCHANGED RNG

\* Rng::new() and Default::default(); the seed source is made on first use
New(L) ==
    /\ CanConstruct(L)
    /\ \E hash \in IF RNG = Uninit THEN Hashes ELSE {Uninit} :
         LET source == IF RNG = Uninit THEN seed_source(hash) ELSE RNG
             r == new(source)
         IN  /\ RNG' = r.state
             /\ cells' = Append(cells, r.ret)
             /\ born' = Append(born, Born("new", Uninit, 0, news, r.ret))
             /\ log' = Append(log, <<>>)

\* rng.clone()
Clone(L) ==
    /\ CanConstruct(L)
    /\ CanDraw(L)
    /\ \E g \in Rngs :
         LET r == clone(cells[g])
         IN  /\ cells' = Append([cells EXCEPT ![g] = r.state], r.ret)
             /\ born' = Append(born, Born("clone", Uninit, g, Len(log[g]), r.ret))
             /\ log' = Append([log EXCEPT ![g] =
                                 Append(@, Called("clone", cells[g], r))],
                              <<>>)
    /\ UNCHANGED RNG

\* a call rng.op() of an extractor, r its effect on the cell of g
Extract(g, op, r) ==
    /\ cells' = [cells EXCEPT ![g] = r.state]
    /\ log' = [log EXCEPT ![g] = Append(@, Called(op, cells[g], r))]
    /\ UNCHANGED <<RNG, born>>

U64(L) ==
    /\ CanDraw(L)
    /\ \E g \in Rngs : LET r == u64(cells[g]) IN Extract(g, "u64", r)

U32(L) ==
    /\ CanDraw(L)
    /\ \E g \in Rngs : LET r == u32(cells[g]) IN Extract(g, "u32", r)

U16(L) ==
    /\ CanDraw(L)
    /\ \E g \in Rngs : LET r == u16(cells[g]) IN Extract(g, "u16", r)

U8(L) ==
    /\ CanDraw(L)
    /\ \E g \in Rngs : LET r == u8(cells[g]) IN Extract(g, "u8", r)

I64(L) ==
    /\ CanDraw(L)
    /\ \E g \in Rngs : LET r == i64(cells[g]) IN Extract(g, "i64", r)

I32(L) ==
    /\ CanDraw(L)
    /\ \E g \in Rngs : LET r == i32(cells[g]) IN Extract(g, "i32", r)

I16(L) ==
    /\ CanDraw(L)
    /\ \E g \in Rngs : LET r == i16(cells[g]) IN Extract(g, "i16", r)

I8(L) ==
    /\ CanDraw(L)
    /\ \E g \in Rngs : LET r == i8(cells[g]) IN Extract(g, "i8", r)

---------------------------------------------------------------------------
(* Specifications *)

\* every operation of the library, from no generator at all
All == Limits(MaxOps, MaxOps, MaxOps)

Next ==
    \/ WithSeed(All)
    \/ New(All)
    \/ Clone(All)
    \/ U64(All)
    \/ U32(All)
    \/ U16(All)
    \/ U8(All)
    \/ I64(All)
    \/ I32(All)
    \/ I16(All)
    \/ I8(All)

Spec == Init /\ [][Next]_vars

\* two identically seeded generators and the eight extractors
Twins == Limits(2, MaxTwinDraws, 2 + MaxTwinDraws)

NextTwins ==
    \/ U64(Twins)
    \/ U32(Twins)
    \/ U16(Twins)
    \/ U8(Twins)
    \/ I64(Twins)
    \/ I32(Twins)
    \/ I16(Twins)
    \/ I8(Twins)

SpecTwins == InitTwins /\ [][NextTwins]_vars

\* two identically seeded generators, their clones and u64 draws
Cloning == Limits(MaxCloneRngs, MaxCloneDraws, MaxCloneRngs + MaxCloneDraws)

NextClone ==
    \/ Clone(Cloning)
    \/ U64(Cloning)

SpecClone == InitTwins /\ [][NextClone]_vars

\* default-constructed generators of one thread and u64 draws
Defaults == Limits(MaxNewRngs, MaxNewDraws, MaxNewRngs + MaxNewDraws)

NextNew ==
    \/ New(Defaults)
    \/ U64(Defaults)

SpecNew == Init /\ [][NextNew]_vars

---------------------------------------------------------------------------
(* Vocabulary of the properties *)

\* the raw transition applied n times to a cell
RECURSIVE iterate(_, _)
iterate(cell, n) ==
    IF n = 0 THEN cell ELSE next_state(iterate(cell, n - 1)).state

\* the n-digit value of a decimal literal, given in groups of three
\* decimal digits as in 4,075,977,849,992,214,257
RECURSIVE from_decimal(_, _)
from_decimal(groups, n) ==
    IF groups = <<>> THEN zeros(n)
    ELSE LET front == from_decimal(SubSeq(groups, 1, Len(groups) - 1), n)
         IN  IF Len(front) = n THEN muladd(front, 1000, groups[Len(groups)])
             ELSE front

\* a signed value read as the unsigned value of the same width
as_unsigned(v) == IF v.neg THEN negate(v.mag) ELSE v.mag

\* the width in bytes of what an extractor returns
width(op) ==
    CASE op \in {"u64", "i64"} -> 8
      [] op \in {"u32", "i32"} -> 4
      [] op \in {"u16", "i16"} -> 2
      [] op \in {"u8", "i8"} -> 1
      [] OTHER -> 16

signed(op) == op \in {"i64", "i32", "i16", "i8"}

unsigned(op) == op \in {"u64", "u32", "u16", "u8"}

widths(calls_made, k) == [j \in 1..k |-> width(calls_made[j].op)]

ops(calls_made, k) == [j \in 1..k |-> calls_made[j].op]

Clones == {d \in Rngs : born[d].how = "clone"}

\* the call on its source that made the clone d
cloning(d) == log[born[d].of][born[d].at + 1]

\* the source of clone d has been called again after the clone was taken
source_called_after(d) == Len(log[born[d].of]) >= born[d].at + 2

source_next(d) == log[born[d].of][born[d].at + 2]

\* generators A, B made by consecutive calls of new() on the thread
Consecutive ==
    {p \in Rngs \X Rngs :
        /\ born[p[1]].how = "new"
        /\ born[p[2]].how = "new"
        /\ born[p[2]].at = born[p[1]].at + 1}

ZeroSeeded == {g \in Rngs : born[g].how = "with_seed" /\ born[g].seed = zeros(16)}

---------------------------------------------------------------------------
(* Properties under Spec: the whole library *)

\* C3: the state of every generator is odd, hence never 0, in every
\* reachable state: the seed source once it exists, every generator at
\* construction (with_seed, new, clone) and before and after every call of
\* any width made on it.
C3_StateAlwaysOdd ==
    /\ RNG # Uninit => is_odd(RNG)
    /\ \A g \in Rngs :
         /\ is_odd(cells[g])
         /\ cells[g] # zeros(16)
         /\ is_odd(born[g].init)
         /\ \A k \in 1..Len(log[g]) :
              is_odd(log[g][k].pre) /\ is_odd(log[g][k].post)

\* C3 witness: a generator seeded with 0 has been called and the seed
\* source has made a generator.
C3_Witness ==
    /\ RNG # Uninit
    /\ \E g \in ZeroSeeded : Len(log[g]) >= 1
    /\ \E g \in Rngs : born[g].how = "new"

\* s with bit 0 flipped, and s with bit 127 flipped
flip_low(s) == xor(s, one(s))

flip_high(s) == xor(s, <<128>> \o zeros(15))

Seeded == {g \in Rngs : born[g].how = "with_seed"}

\* C4 as claimed: two generators from with_seed whose seeds differ exactly
\* in bit 0 start in the same state.
C4_LowBitDiscarded ==
    \A g, h \in Seeded :
        born[h].seed = flip_low(born[g].seed) => born[h].init = born[g].init

\* C4 amended: with_seed discards bit 127 of the seed, not bit 0: seeds
\* that differ exactly in bit 127 start in the same state, seeds that
\* differ exactly in bit 0 start in different states, and bit 0 of the
\* seed is bit 1 of the state.
C4_HighBitDiscarded ==
    \A g, h \in Seeded :
        /\ born[h].seed = flip_high(born[g].seed) => born[h].init = born[g].init
        /\ born[h].seed = flip_low(born[g].seed) => born[h].init # born[g].init
        /\ (born[g].init[16] \div 2) % 2 = born[g].seed[16] % 2

\* C4 witness: generators seeded with s and with s with bit 127 flipped,
\* and generators seeded with s and with s with bit 0 flipped.
C4_Witness ==
    /\ \E g, h \in Seeded : born[h].seed = flip_high(born[g].seed)
    /\ \E g, h \in Seeded : born[h].seed = flip_low(born[g].seed)

\* the literals of tests::it_works and the first output for seed 0
Literal_it_works ==
    from_decimal(<<4, 75, 977, 849, 992, 214, 257>>, 8)

Literal_first ==
    from_decimal(<<1, 360, 472, 147, 205, 615, 982>>, 8)

\* C5 as claimed: for explicit seed 0 the first u64 drawn is
\* 4075977849992214257 and is not 0.
C5_FirstIsLiteral ==
    \A g \in ZeroSeeded :
        (Len(log[g]) >= 1 /\ log[g][1].op = "u64") =>
            /\ log[g][1].ret = Literal_it_works
            /\ log[g][1].ret # zeros(8)

\* C5 amended: for explicit seed 0 (initial state 1) the first u64 drawn
\* is 1360472147205615982, the high 64 bits of MULT, and is not 0; the
\* second u64 drawn is 4075977849992214257; each draw sets the state to
\* state * MULT mod 2^128 and returns the high 64 bits of the new state.
C5_SecondIsLiteral ==
    \A g \in ZeroSeeded :
        /\ born[g].init = one(MULT)
        /\ (Len(log[g]) >= 1 /\ log[g][1].op = "u64") =>
              /\ log[g][1].ret = Literal_first
              /\ log[g][1].ret = SubSeq(MULT, 1, 8)
              /\ log[g][1].ret # zeros(8)
        /\ (Len(log[g]) >= 2 /\ log[g][1].op = "u64" /\ log[g][2].op = "u64") =>
              log[g][2].ret = Literal_it_works
        /\ \A k \in 1..Len(log[g]) :
              log[g][k].op = "u64" =>
                  /\ log[g][k].post = wrapping_mul(log[g][k].pre, MULT)
                  /\ log[g][k].ret = SubSeq(log[g][k].post, 1, 8)

\* C5 witness: a generator seeded with 0 has drawn two u64 values.
C5_Witness ==
    \E g \in ZeroSeeded :
        Len(log[g]) >= 2 /\ log[g][1].op = "u64" /\ log[g][2].op = "u64"

---------------------------------------------------------------------------
(* Properties under SpecTwins: the extractors *)

\* C6: every extractor call applies the transition exactly once: after N
\* calls of any mix of widths the generator's state is its initial state
\* with the raw transition applied N times, and the k-th call takes the
\* state from the (k-1)-th to the k-th of those states.
C6_OneTransitionPerCall ==
    \A g \in Rngs :
        /\ cells[g] = iterate(born[g].init, Len(log[g]))
        /\ \A k \in 1..Len(log[g]) :
              /\ log[g][k].pre = iterate(born[g].init, k - 1)
              /\ log[g][k].post = iterate(born[g].init, k)

\* C6 witness: two calls of different widths made on one generator, one
\* of them narrower than 32 bits.
C6_Witness ==
    \E g \in Rngs :
        /\ Len(log[g]) >= 2
        /\ width(log[g][1].op) # width(log[g][2].op)
        /\ \E k \in 1..2 : width(log[g][k].op) <= 2

\* the places of all the calls made: generator and position in its log
Made == {p \in Rngs \X (1..MaxTwinDraws) : p[2] <= Len(log[p[1]])}

made(p) == log[p[1]][p[2]]

\* (h mod 2^32) XOR (h div 2^32)
fold(h) == xor(SubSeq(h, 5, 8), SubSeq(h, 1, 4))

\* C8: width folding.  A u64 draw returns h, the high 64 bits of the state
\* after one transition; a u32 draw from the same pre-state returns
\* (h mod 2^32) XOR (h div 2^32); a u16 draw from the same pre-state
\* returns bits [31:16] of that 32-bit value and a u8 draw bits [31:24].
C8_WidthFolding ==
    \A p \in Made :
        LET e == made(p)
            h == SubSeq(next_state(e.pre).state, 1, 8)
        IN  /\ e.op = "u64" => e.ret = h
            /\ e.op = "u32" => e.ret = fold(h)
            /\ e.op = "u16" => e.ret = SubSeq(fold(h), 1, 2)
            /\ e.op = "u8" => e.ret = SubSeq(fold(h), 1, 1)
            /\ \A q \in Made :
                  LET f == made(q)
                  IN  (f.pre = e.pre /\ e.op = "u64") =>
                          /\ f.op = "u32" => f.ret = fold(e.ret)
                          /\ f.op = "u16" => f.ret = SubSeq(fold(e.ret), 1, 2)
                          /\ f.op = "u8" => f.ret = SubSeq(fold(e.ret), 1, 1)

\* C8 witness: a u64 and a u32 drawn from one pre-state whose two halves
\* are both non-zero, so that folding differs from truncation.
C8_Witness ==
    \E p, q \in Made :
        /\ made(p).op = "u64"
        /\ made(q).op = "u32"
        /\ made(q).pre = made(p).pre
        /\ SubSeq(made(p).ret, 1, 4) # zeros(4)
        /\ made(q).ret # SubSeq(made(p).ret, 5, 8)

\* C9: signed/unsigned equivalence.  For the two identically seeded
\* generators driven through draws of the same widths, a signed draw on
\* one, read as the unsigned value of its width, equals the unsigned draw
\* at the same place on the other, and both are in the same state after it.
C9_SignedIsUnsigned ==
    \A g, h \in Rngs :
        \A k \in 1..Len(log[g]) :
            (/\ born[g].init = born[h].init
             /\ k <= Len(log[h])
             /\ widths(log[g], k) = widths(log[h], k)
             /\ signed(log[g][k].op)
             /\ unsigned(log[h][k].op)) =>
                /\ as_unsigned(log[g][k].ret) = log[h][k].ret
                /\ log[g][k].post = log[h][k].post

\* C9 witness: a signed draw that returned a negative value of 16 bits or
\* more, with the unsigned draw of that width at the same place on the twin.
C9_Witness ==
    \E g, h \in Rngs :
        \E k \in 1..Len(log[g]) :
            /\ k <= Len(log[h])
            /\ widths(log[g], k) = widths(log[h], k)
            /\ signed(log[g][k].op)
            /\ unsigned(log[h][k].op)
            /\ width(log[g][k].op) >= 2
            /\ log[g][k].ret.neg

---------------------------------------------------------------------------
(* Properties under SpecClone: duplication *)

\* the clone d and its source have each drawn a u64 right after the clone
both_drew(d) ==
    /\ Len(log[d]) >= 1
    /\ log[d][1].op = "u64"
    /\ source_called_after(d)
    /\ source_next(d).op = "u64"

\* C1 as claimed: immediately after D = G.clone() the states of G and D
\* are different, and the first u64 drawn from D is not the next u64 drawn
\* from G.
C1_CloneDecorrelates ==
    \A d \in Clones :
        /\ born[d].init # cloning(d).post
        /\ both_drew(d) => log[d][1].ret # source_next(d).ret

\* C1 amended: immediately after D = G.clone() the state of D is not the
\* state G had before the call, but it is the state G has after it (the
\* call advanced G), and the first u64 drawn from D is equal to the next
\* u64 drawn from G.
C1_CloneSharesAdvancedState ==
    \A d \in Clones :
        /\ born[d].init # cloning(d).pre
        /\ cloning(d).post # cloning(d).pre
        /\ born[d].init = cloning(d).post
        /\ both_drew(d) => log[d][1].ret = source_next(d).ret

\* C1 witness: a clone and its source have each drawn a u64 after the
\* clone was taken.
C1_Witness == \E d \in Clones : both_drew(d)

\* clones d, e of the two seeded generators, taken after the same calls
twin_clones(d, e) ==
    /\ born[d].of # born[e].of
    /\ born[born[d].of].how = "with_seed"
    /\ born[born[e].of].how = "with_seed"
    /\ born[born[d].of].seed = born[born[e].of].seed
    /\ born[d].at = born[e].at
    /\ ops(log[born[d].of], born[d].at) = ops(log[born[e].of], born[e].at)

\* C2: clone() applies the transition to the source exactly once and
\* gives the clone exactly the advanced value as its initial state; the
\* next u64 drawn from the clone equals the next u64 drawn from the
\* source; and clones of two generators built with the same seed that
\* received the same draws return equal values, draw for draw.
C2_CloneIsDeterministic ==
    \A d \in Clones :
        /\ cloning(d).op = "clone"
        /\ cloning(d).post = next_state(cloning(d).pre).state
        /\ born[d].init = cloning(d).ret
        /\ cloning(d).ret = cloning(d).post
        /\ both_drew(d) => log[d][1].ret = source_next(d).ret
        /\ \A e \in Clones :
              twin_clones(d, e) =>
                  /\ born[d].init = born[e].init
                  /\ \A k \in 1..Len(log[d]) :
                        (k <= Len(log[e]) /\ ops(log[d], k) = ops(log[e], k)) =>
                            log[d][k].ret = log[e][k].ret

\* C2 witness: the two seeded generators drew a u64 each and were then
\* cloned, and their clones drew a u64 each.
C2_Witness ==
    \E d, e \in Clones :
        /\ twin_clones(d, e)
        /\ born[d].at >= 1
        /\ Len(log[d]) >= 1
        /\ Len(log[e]) >= 1
        /\ log[d][1].op = "u64"
        /\ log[e][1].op = "u64"

---------------------------------------------------------------------------
(* Properties under SpecNew: default construction *)

first_draws(p) == Len(log[p[1]]) >= 1 /\ Len(log[p[2]]) >= 1

LastNew == {g \in Rngs : born[g].how = "new" /\ born[g].at = news - 1}

\* C10: new() advances the seed source by exactly one transition and
\* copies its resulting state unchanged into the new generator: the newest
\* default-constructed generator started in the state the seed source now
\* holds; for A then B default-constructed consecutively, B's initial
\* state is one transition after A's and equals A's state after its first
\* draw, and A's (k+1)-th u64 output equals B's k-th for every k >= 1.
C10_DefaultsShareOneStream ==
    /\ \A g \in LastNew : born[g].init = RNG
    /\ \A p \in Consecutive :
         LET A == p[1]
             B == p[2]
         IN  /\ born[B].init = next_state(born[A].init).state
             /\ Len(log[A]) >= 1 => log[A][1].post = born[B].init
             /\ \A k \in 1..Len(log[B]) :
                   k + 1 <= Len(log[A]) => log[A][k + 1].ret = log[B][k].ret

\* C10 witness: A has drawn three u64 values and B two.
C10_Witness ==
    \E p \in Consecutive : Len(log[p[1]]) >= 3 /\ Len(log[p[2]]) >= 2

====
